---- MODULE Spec2Model ----
(***************************************************************************)
(* react-scroll-snap-momentum: the momentum classifier                     *)
(* (useTouchpadDetection), the adaptive throttle (useScrollThrottle) and   *)
(* the navigation hooks (useScrollContainer, vertical, and                 *)
(* useHorizontalScrollContainer) as one state machine.                     *)
(* Time is the value of Date.now() in milliseconds.  Every handler runs to *)
(* completion (single-threaded event loop), so each handler is one action. *)
(* The wheel and touch handlers are re-subscribed after every render, so   *)
(* the currentSection they close over is the value of the latest render.   *)
(***************************************************************************)
EXTENDS Integers, Sequences, FiniteSets, TLC

(***************************************************************************)
(* Program constants                                                       *)
(***************************************************************************)
minTimeGap == 1500
minDelta == 4
MIN_TOUCH_DISTANCE == 50
MAX_TOUCH_TIME == 800
SafetyTimeout == 2000
StuckThreshold == 5000
WatchdogPeriod == 1000
VerticalNormalThrottle == 600
VerticalMomentumThrottle == 1200
HorizontalNormalThrottle == 600
HorizontalMomentumThrottle == 1800
DefaultNormalThrottle == 400
DefaultMomentumThrottle == 1800
\* The momentum throttle the documentation of useScrollContainer states.
DocNormalThrottle == 600
DocMomentumThrottle == 1800

(***************************************************************************)
(* Bounds of the model                                                     *)
(***************************************************************************)
\* Date.now() when the hook mounts (any value far from the epoch 0).
MountTime == 10000
\* The clock of Spec runs from MountTime to MountTime + MaxElapsed.
MaxElapsed == 2400
\* totalSections prop at mount.
Total == 3
\* Samples recorded by ClassifierSpec.
MaxSamples == 3
\* ScenarioSpec: totalSections prop at mount.
ScenarioTotal == 5
\* LiveSpec: inputs arrive during the first LiveInputWindow ms after mount.
LiveInputWindow == 1000

NULL == -1

VARIABLES
    now,               \* Date.now()
    axis,              \* the hook the component mounts: useScrollContainer ("vertical")
                       \* or useHorizontalScrollContainer ("horizontal")
    mounted,           \* the component is mounted: the effects have run, their cleanups not
    totalSections,     \* prop totalSections
    sectionRefs,       \* indexes i with sectionRefs.current[i] non-null
    currentSection,    \* useState(0)
    isScrolling,       \* isScrollingRef.current
    scrollTimeoutRef,  \* scrollTimeoutRef.current: due time of the timer it names, or NULL
    timeouts,          \* pending setTimeout callbacks, by due time
    lastScrollTime,    \* lastScrollTimeRef.current
    lastThrottleTime,  \* useScrollThrottle: lastThrottleTimeRef.current
    normalThrottle,    \* useScrollThrottle prop
    momentumThrottle,  \* useScrollThrottle prop
    lastDelta,         \* useTouchpadDetection: lastDeltaRef.current
    lastDirection,     \* useTouchpadDetection: lastDirectionRef.current
    lastEventTime,     \* useTouchpadDetection: lastEventTimeRef.current
    touchStartY,       \* touchStartYRef.current
    touchStartTime,    \* touchStartTimeRef.current
    isTouching,        \* isTouchingRef.current
    lastOp,            \* history: the handler that ran last, its input and its return path
    cascadeNavs,       \* history: navigations started by samples of the current wheel cascade
    urlCalls,          \* history: the arguments of the updateURL calls of the handler that ran last
    history            \* history: samples given to detectInertia and the labels returned

vars == <<now, axis, mounted, totalSections, sectionRefs, currentSection, isScrolling,
          scrollTimeoutRef, timeouts, lastScrollTime, lastThrottleTime,
          normalThrottle, momentumThrottle, lastDelta, lastDirection,
          lastEventTime, touchStartY, touchStartTime, isTouching, lastOp,
          cascadeNavs, urlCalls, history>>

classifierVars == <<lastDelta, lastDirection, lastEventTime>>
touchVars == <<touchStartY, touchStartTime, isTouching>>
navVars == <<currentSection, isScrolling, scrollTimeoutRef, timeouts,
             lastScrollTime, lastThrottleTime>>
propVars == <<axis, mounted, totalSections, sectionRefs, normalThrottle, momentumThrottle>>

(***************************************************************************)
(* Math.abs, Math.sign                                                     *)
(***************************************************************************)
Abs(x) == IF x < 0 THEN -x ELSE x
Sign(x) == IF x > 0 THEN 1 ELSE IF x < 0 THEN -1 ELSE 0
SetMin(S) == CHOOSE x \in S : \A y \in S : x <= y

\* History records: which handler ran last (op), its input (arg), the label
\* detectInertia or the caller gave the event (momentum) and the return
\* path or the returned value (outcome).
BoolStr(b) == IF b THEN "true" ELSE "false"
Op(op, arg, momentum, outcome) ==
    [op |-> op, arg |-> arg, momentum |-> momentum, outcome |-> outcome]

(***************************************************************************)
(* useTouchpadDetection                                                    *)
(***************************************************************************)
\* 1. Events are too quick (< minTimeGap)
isTimeTooQuick(t, lastT) == t - lastT < minTimeGap

\* 2. Same direction as the previous event
isSameDirection_noZeroCheck(currentDirection, lastDir) == currentDirection = lastDir
isSameDirection(currentDirection, lastDir) ==
    lastDir # 0 /\ currentDirection = lastDir

\* 3. Delta not increasing (equal values allowed)
isDeltaNotIncreasing_strict(currentDelta, lastD) == currentDelta < lastD
isDeltaNotIncreasing(currentDelta, lastD) == currentDelta <= lastD

\* The value detectInertia returns for a wheel event of deltaY at time t,
\* given the tracking refs left by the previous call.
isMomentumScroll(deltaY, t, lastD, lastDir, lastT) ==
    /\ isTimeTooQuick(t, lastT)
    /\ isSameDirection(Sign(deltaY), lastDir)
    /\ isDeltaNotIncreasing(Abs(deltaY), lastD)

\* The tracking refs detectInertia leaves behind.
detectInertiaUpdate_intentionalOnly(deltaY) ==
    IF isMomentumScroll(deltaY, now, lastDelta, lastDirection, lastEventTime)
    THEN UNCHANGED classifierVars
    ELSE /\ lastDelta' = Abs(deltaY)
         /\ lastDirection' = Sign(deltaY)
         /\ lastEventTime' = now
detectInertiaUpdate(deltaY) ==
    /\ lastDelta' = Abs(deltaY)
    /\ lastDirection' = Sign(deltaY)
    /\ lastEventTime' = now

isValidDelta_signed(deltaY) == deltaY >= minDelta
isValidDelta_nonZero(deltaY) == Abs(deltaY) > 0
isValidDelta(deltaY) == Abs(deltaY) >= minDelta

(***************************************************************************)
(* useScrollThrottle                                                       *)
(***************************************************************************)
effectiveThrottle(isMomentum, normalT, momentumT) ==
    IF isMomentum THEN momentumT ELSE normalT

isThrottled_inclusive(isMomentum, t, lastT, normalT, momentumT) ==
    t - lastT <= effectiveThrottle(isMomentum, normalT, momentumT)
isThrottled(isMomentum, t, lastT, normalT, momentumT) ==
    t - lastT < effectiveThrottle(isMomentum, normalT, momentumT)

updateThrottle_skipped == UNCHANGED lastThrottleTime
updateThrottle_elapsed == lastThrottleTime' = now - lastThrottleTime
updateThrottle == lastThrottleTime' = now

\* getThrottleStatus(isMomentumScroll).remainingTime
remainingTime_unclamped(isMomentum, t, lastT, normalT, momentumT) ==
    effectiveThrottle(isMomentum, normalT, momentumT) - (t - lastT)
remainingTime(isMomentum, t, lastT, normalT, momentumT) ==
    LET r == effectiveThrottle(isMomentum, normalT, momentumT) - (t - lastT)
    IN IF r > 0 THEN r ELSE 0

\* reset()
reset == lastThrottleTime' = 0

(***************************************************************************)
(* useScrollContainer (vertical)                                           *)
(***************************************************************************)
\* const targetElement = sectionRefs.current[sectionIndex]; if (targetElement)
hasElement_any(sectionIndex) == TRUE
hasElement_noLowerBound(sectionIndex) == sectionIndex < totalSections
hasElement_inRange(sectionIndex) == sectionIndex \in 0 .. (totalSections - 1)
hasElement(sectionIndex) == sectionIndex \in sectionRefs

\* if (scrollTimeoutRef.current) clearTimeout(scrollTimeoutRef.current)
clearTimeout(pending, ref) == IF ref # NULL THEN pending \ {ref} ELSE pending

clearedBeforeRearm_keepsPending(pending, ref) == pending
clearedBeforeRearm(pending, ref) == clearTimeout(pending, ref)

\* scrollToSection(sectionIndex)
scrollToSection_noURL(sectionIndex) ==
    IF hasElement(sectionIndex)
    THEN /\ isScrolling' = TRUE
         /\ lastScrollTime' = now
         /\ timeouts' = clearedBeforeRearm(timeouts, scrollTimeoutRef)
                            \cup {now + SafetyTimeout}
         /\ scrollTimeoutRef' = now + SafetyTimeout
         /\ currentSection' = sectionIndex
         /\ urlCalls' = <<>>
         /\ updateThrottle
    ELSE UNCHANGED navVars /\ urlCalls' = <<>>
scrollToSection(sectionIndex) ==
    IF hasElement(sectionIndex)
    THEN /\ isScrolling' = TRUE
         /\ lastScrollTime' = now
         /\ timeouts' = clearedBeforeRearm(timeouts, scrollTimeoutRef)
                            \cup {now + SafetyTimeout}
         /\ scrollTimeoutRef' = now + SafetyTimeout
         /\ currentSection' = sectionIndex
         /\ urlCalls' = <<sectionIndex>>
         /\ updateThrottle
    ELSE UNCHANGED navVars /\ urlCalls' = <<>>

\* setCurrentSection without lock, timer or throttle
\* (handlePopStateNavigation, handleURLSectionChange)
showSection_asScrollToSection(sectionIndex) == scrollToSection(sectionIndex)
showSection_gated(sectionIndex) ==
    /\ currentSection' = IF hasElement(sectionIndex) /\ ~isScrolling
                         THEN sectionIndex ELSE currentSection
    /\ urlCalls' = <<>>
    /\ UNCHANGED <<isScrolling, scrollTimeoutRef, timeouts, lastScrollTime,
                   lastThrottleTime>>
showSection(sectionIndex) ==
    /\ currentSection' = IF hasElement(sectionIndex) THEN sectionIndex
                         ELSE currentSection
    /\ urlCalls' = <<>>
    /\ UNCHANGED <<isScrolling, scrollTimeoutRef, timeouts, lastScrollTime,
                   lastThrottleTime>>

\* const direction = delta > 0 ? 1 : -1
stepDirection_double(delta) == IF delta > 0 THEN 2 ELSE -2
stepDirection(delta) == IF delta > 0 THEN 1 ELSE -1

\* if (nextSection >= 0 && nextSection < totalSections)
inBounds(nextSection) == nextSection >= 0 /\ nextSection < totalSections

\* if (isScrollingRef.current) return   (wheel handler)
wheelLocked_never == FALSE
wheelLocked == isScrolling

\* if (isThrottled(isMomentumScroll)) return   (wheel handler)
wheelThrottled_never(isMomentum) == FALSE
wheelThrottled_momentumTier(isMomentum) ==
    isThrottled(TRUE, now, lastThrottleTime, normalThrottle, momentumThrottle)
wheelThrottled(isMomentum) ==
    isThrottled(isMomentum, now, lastThrottleTime, normalThrottle, momentumThrottle)

\* The return path of throttledWheelHandler for an event of deltaY.
wheelOutcome(deltaY, isMomentum) ==
    LET nextSection == currentSection + stepDirection(deltaY) IN
    IF ~isValidDelta(deltaY) THEN "noise"
    ELSE IF wheelLocked THEN "locked"
    ELSE IF wheelThrottled(isMomentum) THEN "throttled"
    ELSE IF ~inBounds(nextSection) THEN "bounds"
    ELSE IF ~hasElement(nextSection) THEN "noElement"
    ELSE "accepted"

\* A sample continues the wheel cascade of the previous sample: it comes less
\* than minTimeGap after it, in the same (non-zero) direction, with a
\* magnitude that is not larger.
continuesCascade(deltaY) ==
    /\ now - lastEventTime < minTimeGap
    /\ Sign(deltaY) # 0
    /\ Sign(deltaY) = lastDirection
    /\ Abs(deltaY) <= lastDelta

\* throttledWheelHandler(e) with e.deltaY = deltaY
Wheel_marksBeforeBounds(deltaY) ==
    LET isMomentum == isMomentumScroll(deltaY, now, lastDelta, lastDirection,
                                       lastEventTime)
        outcome == wheelOutcome(deltaY, isMomentum)
        started == IF outcome = "accepted" THEN 1 ELSE 0
    IN /\ detectInertiaUpdate(deltaY)
       /\ IF outcome \in {"accepted", "noElement"}
          THEN scrollToSection(currentSection + stepDirection(deltaY))
          ELSE IF outcome = "bounds"
          THEN /\ updateThrottle
               /\ urlCalls' = <<>>
               /\ UNCHANGED <<currentSection, isScrolling, scrollTimeoutRef,
                              timeouts, lastScrollTime>>
          ELSE UNCHANGED navVars /\ urlCalls' = <<>>
       /\ lastOp' = Op("wheel", deltaY, isMomentum, outcome)
       /\ cascadeNavs' = IF continuesCascade(deltaY)
                         THEN IF cascadeNavs + started > 2 THEN 2
                              ELSE cascadeNavs + started
                         ELSE started
       /\ UNCHANGED <<now, propVars, touchVars, history>>
Wheel(deltaY) ==
    LET isMomentum == isMomentumScroll(deltaY, now, lastDelta, lastDirection,
                                       lastEventTime)
        outcome == wheelOutcome(deltaY, isMomentum)
        started == IF outcome = "accepted" THEN 1 ELSE 0
    IN /\ detectInertiaUpdate(deltaY)
       /\ IF outcome \in {"accepted", "noElement"}
          THEN scrollToSection(currentSection + stepDirection(deltaY))
          ELSE UNCHANGED navVars /\ urlCalls' = <<>>
       /\ lastOp' = Op("wheel", deltaY, isMomentum, outcome)
       /\ cascadeNavs' = IF continuesCascade(deltaY)
                         THEN IF cascadeNavs + started > 2 THEN 2
                              ELSE cascadeNavs + started
                         ELSE started
       /\ UNCHANGED <<now, propVars, touchVars, history>>

\* handleTouchStart(e) with e.touches[0].clientY = y
TouchStart_unguarded(y) ==
    /\ touchStartY' = y
    /\ touchStartTime' = now
    /\ isTouching' = TRUE
    /\ lastOp' = Op("touchStart", y, FALSE,
                    IF isScrolling THEN "locked" ELSE "recorded")
    /\ urlCalls' = <<>>
    /\ UNCHANGED <<now, propVars, navVars, classifierVars, cascadeNavs, history>>
TouchStart(y) ==
    /\ IF isScrolling
       THEN /\ UNCHANGED touchVars
            /\ lastOp' = Op("touchStart", y, FALSE, "locked")
       ELSE /\ touchStartY' = y
            /\ touchStartTime' = now
            /\ isTouching' = TRUE
            /\ lastOp' = Op("touchStart", y, FALSE, "recorded")
    /\ urlCalls' = <<>>
    /\ UNCHANGED <<now, propVars, navVars, classifierVars, cascadeNavs, history>>

\* if (isThrottled(false)) return   (touch handler)
touchThrottled_momentumTier ==
    isThrottled(TRUE, now, lastThrottleTime, normalThrottle, momentumThrottle)
touchThrottled ==
    isThrottled(FALSE, now, lastThrottleTime, normalThrottle, momentumThrottle)

\* The return path of handleTouchEnd for a touch that ends at clientY = y.
touchOutcome(y) ==
    LET deltaY == touchStartY - y
        deltaTime == now - touchStartTime
        distance == Abs(deltaY)
        nextSection == currentSection + stepDirection(deltaY)
    IN IF ~isTouching THEN "inactive"
       ELSE IF distance < MIN_TOUCH_DISTANCE THEN "short"
       ELSE IF deltaTime > MAX_TOUCH_TIME THEN "slow"
       ELSE IF touchThrottled THEN "throttled"
       ELSE IF ~inBounds(nextSection) THEN "bounds"
       ELSE IF ~hasElement(nextSection) THEN "noElement"
       ELSE "accepted"

\* handleTouchEnd(e) with e.changedTouches[0].clientY = y
TouchEnd(y) ==
    LET outcome == touchOutcome(y) IN
    /\ isTouching' = FALSE
    /\ UNCHANGED <<touchStartY, touchStartTime>>
    /\ IF outcome \in {"accepted", "noElement"}
       THEN scrollToSection(currentSection + stepDirection(touchStartY - y))
       ELSE UNCHANGED navVars /\ urlCalls' = <<>>
    /\ lastOp' = Op("touchEnd", y, FALSE, outcome)
    /\ UNCHANGED <<now, propVars, classifierVars, cascadeNavs, history>>

\* handleTouchCancel()
TouchCancel_keepsActive ==
    /\ UNCHANGED <<isTouching, touchStartY, touchStartTime>>
    /\ lastOp' = Op("touchCancel", 0, FALSE, "done")
    /\ urlCalls' = <<>>
    /\ UNCHANGED <<now, propVars, navVars, classifierVars, cascadeNavs, history>>
TouchCancel ==
    /\ isTouching' = FALSE
    /\ UNCHANGED <<touchStartY, touchStartTime>>
    /\ lastOp' = Op("touchCancel", 0, FALSE, "done")
    /\ urlCalls' = <<>>
    /\ UNCHANGED <<now, propVars, navVars, classifierVars, cascadeNavs, history>>

\* scrollToSection(sectionIndex) called by the host (navigation dots, keys)
ScrollToSection(sectionIndex) ==
    /\ scrollToSection(sectionIndex)
    /\ lastOp' = Op("scrollToSection", sectionIndex, FALSE,
                    IF hasElement(sectionIndex) THEN "accepted" ELSE "noElement")
    /\ UNCHANGED <<now, propVars, classifierVars, touchVars, cascadeNavs, history>>

\* handlePopStateNavigation(sectionIndex)
HandlePopStateNavigation(sectionIndex) ==
    /\ showSection(sectionIndex)
    /\ lastOp' = Op("popState", sectionIndex, FALSE,
                    IF hasElement(sectionIndex) THEN "accepted" ELSE "noElement")
    /\ UNCHANGED <<now, propVars, classifierVars, touchVars, cascadeNavs, history>>

\* handleURLSectionChange(sectionIndex, behavior)
HandleURLSectionChange(sectionIndex) ==
    /\ showSection(sectionIndex)
    /\ lastOp' = Op("urlChange", sectionIndex, FALSE,
                    IF hasElement(sectionIndex) THEN "accepted" ELSE "noElement")
    /\ UNCHANGED <<now, propVars, classifierVars, touchVars, cascadeNavs, history>>

\* IntersectionObserver callback with an entry that is intersecting at a
\* ratio above 0.5, for the section of index sectionIndex.
ObserverFires_resetsThrottle(sectionIndex) ==
    /\ hasElement(sectionIndex)
    /\ timeouts' = clearTimeout(timeouts, scrollTimeoutRef)
    /\ scrollTimeoutRef' = NULL
    /\ isScrolling' = FALSE
    /\ reset
    /\ lastOp' = Op("observer", sectionIndex, FALSE,
                    IF isScrolling THEN "unlocked" ELSE "idle")
    /\ urlCalls' = <<>>
    /\ UNCHANGED <<now, propVars, currentSection, lastScrollTime,
                   classifierVars, touchVars, cascadeNavs, history>>
ObserverFires_keepsTimeout(sectionIndex) ==
    /\ hasElement(sectionIndex)
    /\ isScrolling' = FALSE
    /\ lastOp' = Op("observer", sectionIndex, FALSE,
                    IF isScrolling THEN "unlocked" ELSE "idle")
    /\ urlCalls' = <<>>
    /\ UNCHANGED <<now, propVars, currentSection, scrollTimeoutRef, timeouts,
                   lastScrollTime, lastThrottleTime, classifierVars, touchVars,
                   cascadeNavs, history>>
ObserverFires(sectionIndex) ==
    /\ hasElement(sectionIndex)
    /\ timeouts' = clearTimeout(timeouts, scrollTimeoutRef)
    /\ scrollTimeoutRef' = NULL
    /\ isScrolling' = FALSE
    /\ lastOp' = Op("observer", sectionIndex, FALSE,
                    IF isScrolling THEN "unlocked" ELSE "idle")
    /\ urlCalls' = <<>>
    /\ UNCHANGED <<now, propVars, currentSection, lastScrollTime,
                   lastThrottleTime, classifierVars, touchVars, cascadeNavs,
                   history>>

\* The callback of the 2 second safety timeout armed by scrollToSection.
SafetyTimeoutFires_resetsThrottle ==
    \E due \in timeouts :
        /\ due <= now
        /\ timeouts' = timeouts \ {due}
        /\ isScrolling' = FALSE
        /\ reset
        /\ lastOp' = Op("safetyTimeout", 0, FALSE,
                        IF isScrolling THEN "unlocked" ELSE "idle")
        /\ urlCalls' = <<>>
        /\ UNCHANGED <<now, propVars, currentSection, scrollTimeoutRef,
                       lastScrollTime, classifierVars, touchVars, cascadeNavs,
                       history>>
SafetyTimeoutFires ==
    \E due \in timeouts :
        /\ due <= now
        /\ timeouts' = timeouts \ {due}
        /\ isScrolling' = FALSE
        /\ lastOp' = Op("safetyTimeout", 0, FALSE,
                        IF isScrolling THEN "unlocked" ELSE "idle")
        /\ urlCalls' = <<>>
        /\ UNCHANGED <<now, propVars, currentSection, scrollTimeoutRef,
                       lastScrollTime, lastThrottleTime, classifierVars,
                       touchVars, cascadeNavs, history>>

\* isScrollingRef.current && now - lastScrollTimeRef.current > 5000,
\* as checkStuckState evaluates it when it runs at time t
stuck_never(t) == FALSE
stuck_inclusive(t) == isScrolling /\ t - lastScrollTime >= StuckThreshold
stuck_late(t) == isScrolling /\ t - lastScrollTime > StuckThreshold + WatchdogPeriod
stuck(t) == isScrolling /\ t - lastScrollTime > StuckThreshold

\* setInterval(checkStuckState, 1000) in an effect that runs at mount;
\* the cleanup of the effect clears the interval
watchdogInstant(t) ==
    mounted /\ t > MountTime /\ (t - MountTime) % WatchdogPeriod = 0

\* checkStuckState()
CheckStuckState ==
    /\ watchdogInstant(now)
    /\ IF stuck(now)
       THEN /\ isScrolling' = FALSE
            /\ timeouts' = clearTimeout(timeouts, scrollTimeoutRef)
            /\ scrollTimeoutRef' = NULL
            /\ lastOp' = Op("watchdog", 0, FALSE, "unlocked")
       ELSE /\ UNCHANGED <<isScrolling, timeouts, scrollTimeoutRef>>
            /\ lastOp' = Op("watchdog", 0, FALSE, "idle")
    /\ urlCalls' = <<>>
    /\ UNCHANGED <<now, propVars, currentSection, lastScrollTime,
                   lastThrottleTime, classifierVars, touchVars, cascadeNavs,
                   history>>

(***************************************************************************)
(* The clock.  Timer callbacks run when they are due: time does not pass a *)
(* pending safety timeout, nor an interval tick at which checkStuckState   *)
(* would unlock, before the callback has run.  Interval ticks at which     *)
(* checkStuckState finds nothing to do may be passed over.                 *)
(***************************************************************************)
\* The interval ticks up to maxTime.
watchdogTicks(maxTime) ==
    IF mounted
    THEN {MountTime + k * WatchdogPeriod :
             k \in 1 .. ((maxTime - MountTime) \div WatchdogPeriod)}
    ELSE {}

\* The instants time may not pass before a callback has run.
deadlines(maxTime) ==
    timeouts \cup {t \in watchdogTicks(maxTime) : t >= now /\ stuck(t)}

Tick(dt, maxTime) ==
    LET t == SetMin({now + dt} \cup deadlines(maxTime)) IN
    /\ \A d \in deadlines(maxTime) : now < d
    /\ t <= maxTime
    /\ now' = t
    /\ lastOp' = Op("tick", 0, FALSE, "done")
    /\ urlCalls' = <<>>
    /\ UNCHANGED <<propVars, navVars, classifierVars, touchVars, cascadeNavs,
                   history>>

(***************************************************************************)
(* Spec: the vertical hook with its props fixed, driven by wheel, touch,   *)
(* host calls, the observer and the timers.                                *)
(***************************************************************************)
WheelDeltas == {-50, 3, 40, 50}
TouchStartYs == {200}
TouchEndYs == {150, 151, 300}
TimeSteps == {600}
SectionIndexes == -1 .. Total
MaxTime == MountTime + MaxElapsed

Init ==
    /\ now = MountTime
    /\ axis = "vertical"
    /\ mounted = TRUE
    /\ totalSections = Total
    /\ sectionRefs = 0 .. (Total - 1)
    /\ currentSection = 0
    /\ isScrolling = FALSE
    /\ scrollTimeoutRef = NULL
    /\ timeouts = {}
    /\ lastScrollTime = 0
    /\ lastThrottleTime = 0
    /\ normalThrottle = VerticalNormalThrottle
    /\ momentumThrottle = VerticalMomentumThrottle
    /\ lastDelta = 0
    /\ lastDirection = 0
    /\ lastEventTime = 0
    /\ touchStartY = 0
    /\ touchStartTime = 0
    /\ isTouching = FALSE
    /\ lastOp = Op("mount", 0, FALSE, "done")
    /\ cascadeNavs = 0
    /\ urlCalls = <<>>
    /\ history = <<>>

Next ==
    \/ \E dt \in TimeSteps : Tick(dt, MaxTime)
    \/ \E deltaY \in WheelDeltas : Wheel(deltaY)
    \/ \E y \in TouchStartYs : TouchStart(y)
    \/ \E y \in TouchEndYs : TouchEnd(y)
    \/ TouchCancel
    \/ \E i \in SectionIndexes : ScrollToSection(i)
    \/ \E i \in SectionIndexes : HandlePopStateNavigation(i)
    \/ \E i \in SectionIndexes : HandleURLSectionChange(i)
    \/ \E i \in SectionIndexes : ObserverFires(i)
    \/ SafetyTimeoutFires
    \/ CheckStuckState

Spec == Init /\ [][Next]_vars

(***************************************************************************)
(* LiveSpec: the same hook while the host also re-renders it with another  *)
(* totalSections, which re-runs the observer effect and so cancels the     *)
(* pending safety timeout.  Inputs arrive during the first LiveInputWindow *)
(* ms; the clock then runs on until every timer armed by them has come     *)
(* due.  The timers and the clock are fair: a due callback runs.           *)
(***************************************************************************)
\* Re-render with totalSections = n: the cleanup of the observer effect
\* clears the pending timeout (the ref keeps its value), React updates the
\* section refs, and the effect observes the sections again.
SetTotalSections(n) ==
    /\ n # totalSections
    /\ totalSections' = n
    /\ sectionRefs' = 0 .. (n - 1)
    /\ timeouts' = clearTimeout(timeouts, scrollTimeoutRef)
    /\ lastOp' = Op("render", n, FALSE, "done")
    /\ urlCalls' = <<>>
    /\ UNCHANGED <<now, axis, mounted, normalThrottle, momentumThrottle,
                   currentSection, isScrolling, scrollTimeoutRef, lastScrollTime,
                   lastThrottleTime, classifierVars, touchVars, cascadeNavs,
                   history>>

LiveWheelDeltas == {-50, 50}
LiveTouchEndYs == {150, 300}
LiveSectionIndexes == {0, 1}
LiveTotals == {Total, Total + 1}
LiveTimeSteps == {1000}
LiveMaxTime == MountTime + LiveInputWindow + StuckThreshold + 2 * WatchdogPeriod
inputWindowOpen == now <= MountTime + LiveInputWindow

LiveTick == \E dt \in LiveTimeSteps : Tick(dt, LiveMaxTime)

LiveNext ==
    \/ LiveTick
    \/ inputWindowOpen /\ \E deltaY \in LiveWheelDeltas : Wheel(deltaY)
    \/ inputWindowOpen /\ \E y \in TouchStartYs : TouchStart(y)
    \/ inputWindowOpen /\ \E y \in LiveTouchEndYs : TouchEnd(y)
    \/ inputWindowOpen /\ \E i \in LiveSectionIndexes : ScrollToSection(i)
    \/ inputWindowOpen /\ \E n \in LiveTotals : SetTotalSections(n)
    \/ inputWindowOpen /\ \E i \in LiveSectionIndexes : ObserverFires(i)
    \/ SafetyTimeoutFires
    \/ CheckStuckState

LiveSpec ==
    /\ Init
    /\ [][LiveNext]_vars
    /\ WF_vars(LiveTick)
    /\ WF_vars(SafetyTimeoutFires)
    /\ WF_vars(CheckStuckState)

(***************************************************************************)
(* useHorizontalScrollContainer.  The horizontal hook keeps the same state *)
(* under other names: currentItem (currentSection), itemRefs               *)
(* (sectionRefs), totalItems (totalSections), touchStartXRef               *)
(* (touchStartY), updateActiveItem (updateURL, recorded in urlCalls).  It  *)
(* has no scrollTimeoutRef, no lastScrollTimeRef, no safety timeout and no *)
(* interval: those variables keep their initial values.                    *)
(***************************************************************************)
\* scrollToItem(itemIndex)
scrollToItem(itemIndex) ==
    IF hasElement(itemIndex)
    THEN /\ isScrolling' = TRUE
         /\ currentSection' = itemIndex
         /\ urlCalls' = <<itemIndex>>
         /\ updateThrottle
         /\ UNCHANGED <<scrollTimeoutRef, timeouts, lastScrollTime>>
    ELSE UNCHANGED navVars /\ urlCalls' = <<>>

\* handleItemChange(itemIndex, behavior)
showItem(itemIndex) ==
    /\ currentSection' = IF hasElement(itemIndex) THEN itemIndex
                         ELSE currentSection
    /\ urlCalls' = <<>>
    /\ UNCHANGED <<isScrolling, scrollTimeoutRef, timeouts, lastScrollTime,
                   lastThrottleTime>>

\* const deltaX = e.deltaX !== 0 ? e.deltaX : e.shiftKey ? e.deltaY : 0
horizontalDelta(e) ==
    IF e.deltaX # 0 THEN e.deltaX ELSE IF e.shiftKey THEN e.deltaY ELSE 0

\* The return path of the horizontal throttledWheelHandler, past the
\* deltaX === 0 return.
horizontalWheelOutcome(deltaX, isMomentum) ==
    LET nextItem == currentSection + stepDirection(deltaX) IN
    IF ~isValidDelta(deltaX) THEN "noise"
    ELSE IF isScrolling THEN "locked"
    ELSE IF isThrottled(isMomentum, now, lastThrottleTime, normalThrottle,
                        momentumThrottle) THEN "throttled"
    ELSE IF ~(nextItem >= 0 /\ nextItem < totalSections) THEN "bounds"
    ELSE IF ~hasElement(nextItem) THEN "noElement"
    ELSE "accepted"

\* throttledWheelHandler(e) of the horizontal hook
HorizontalWheel(e) ==
    LET deltaX == horizontalDelta(e)
        isMomentum == isMomentumScroll(deltaX, now, lastDelta, lastDirection,
                                       lastEventTime)
        outcome == horizontalWheelOutcome(deltaX, isMomentum)
        started == IF outcome = "accepted" THEN 1 ELSE 0
    IN /\ IF deltaX = 0
          THEN /\ UNCHANGED <<navVars, classifierVars, cascadeNavs>>
               /\ urlCalls' = <<>>
               /\ lastOp' = Op("wheel", 0, FALSE, "zero")
          ELSE /\ detectInertiaUpdate(deltaX)
               /\ IF outcome \in {"accepted", "noElement"}
                  THEN scrollToItem(currentSection + stepDirection(deltaX))
                  ELSE UNCHANGED navVars /\ urlCalls' = <<>>
               /\ lastOp' = Op("wheel", deltaX, isMomentum, outcome)
               /\ cascadeNavs' = IF continuesCascade(deltaX)
                                 THEN IF cascadeNavs + started > 2 THEN 2
                                      ELSE cascadeNavs + started
                                 ELSE started
       /\ UNCHANGED <<now, propVars, touchVars, history>>

\* handleTouchStart(e) of the horizontal hook, e.touches[0].clientX = x
HorizontalTouchStart(x) ==
    /\ IF isScrolling
       THEN /\ UNCHANGED touchVars
            /\ lastOp' = Op("touchStart", x, FALSE, "locked")
       ELSE /\ touchStartY' = x
            /\ touchStartTime' = now
            /\ isTouching' = TRUE
            /\ lastOp' = Op("touchStart", x, FALSE, "recorded")
    /\ urlCalls' = <<>>
    /\ UNCHANGED <<now, propVars, navVars, classifierVars, cascadeNavs, history>>

\* The return path of the horizontal handleTouchEnd for a touch that ends
\* at clientX = x.
horizontalTouchOutcome(x) ==
    LET deltaX == touchStartY - x
        deltaTime == now - touchStartTime
        distance == Abs(deltaX)
        nextItem == currentSection + stepDirection(deltaX)
    IN IF ~isTouching THEN "inactive"
       ELSE IF distance < MIN_TOUCH_DISTANCE THEN "short"
       ELSE IF deltaTime > MAX_TOUCH_TIME THEN "slow"
       ELSE IF isThrottled(FALSE, now, lastThrottleTime, normalThrottle,
                           momentumThrottle) THEN "throttled"
       ELSE IF ~(nextItem >= 0 /\ nextItem < totalSections) THEN "bounds"
       ELSE IF ~hasElement(nextItem) THEN "noElement"
       ELSE "accepted"

\* handleTouchEnd(e) of the horizontal hook, e.changedTouches[0].clientX = x
HorizontalTouchEnd(x) ==
    LET outcome == horizontalTouchOutcome(x) IN
    /\ isTouching' = FALSE
    /\ UNCHANGED <<touchStartY, touchStartTime>>
    /\ IF outcome \in {"accepted", "noElement"}
       THEN scrollToItem(currentSection + stepDirection(touchStartY - x))
       ELSE UNCHANGED navVars /\ urlCalls' = <<>>
    /\ lastOp' = Op("touchEnd", x, FALSE, outcome)
    /\ UNCHANGED <<now, propVars, classifierVars, cascadeNavs, history>>

\* handleTouchCancel() of the horizontal hook
HorizontalTouchCancel ==
    /\ isTouching' = FALSE
    /\ UNCHANGED <<touchStartY, touchStartTime>>
    /\ lastOp' = Op("touchCancel", 0, FALSE, "done")
    /\ urlCalls' = <<>>
    /\ UNCHANGED <<now, propVars, navVars, classifierVars, cascadeNavs, history>>

\* scrollToItem(itemIndex) called by the host
ScrollToItem(itemIndex) ==
    /\ scrollToItem(itemIndex)
    /\ lastOp' = Op("scrollToItem", itemIndex, FALSE,
                    IF hasElement(itemIndex) THEN "accepted" ELSE "noElement")
    /\ UNCHANGED <<now, propVars, classifierVars, touchVars, cascadeNavs, history>>

\* handleItemChange(itemIndex, behavior) called by the host
HandleItemChange(itemIndex) ==
    /\ showItem(itemIndex)
    /\ lastOp' = Op("itemChange", itemIndex, FALSE,
                    IF hasElement(itemIndex) THEN "accepted" ELSE "noElement")
    /\ UNCHANGED <<now, propVars, classifierVars, touchVars, cascadeNavs, history>>

\* IntersectionObserver callback of the horizontal hook, with an entry that
\* is intersecting at a ratio above 0.5, for the item of index itemIndex.
HorizontalObserverFires(itemIndex) ==
    /\ hasElement(itemIndex)
    /\ isScrolling' = FALSE
    /\ lastOp' = Op("observer", itemIndex, FALSE,
                    IF isScrolling THEN "unlocked" ELSE "idle")
    /\ urlCalls' = <<>>
    /\ UNCHANGED <<now, propVars, currentSection, scrollTimeoutRef, timeouts,
                   lastScrollTime, lastThrottleTime, classifierVars, touchVars,
                   cascadeNavs, history>>

\* The clock of the horizontal hook: it arms no timer.
HorizontalTick(dt, maxTime) ==
    /\ now + dt <= maxTime
    /\ now' = now + dt
    /\ lastOp' = Op("tick", 0, FALSE, "done")
    /\ urlCalls' = <<>>
    /\ UNCHANGED <<propVars, navVars, classifierVars, touchVars, cascadeNavs,
                   history>>

(***************************************************************************)
(* HorizontalSpec: the horizontal hook driven by wheel, touch, host calls  *)
(* and the observer.  The clock is fair; nothing obliges the observer to   *)
(* report an item.                                                         *)
(***************************************************************************)
HorizontalWheelEvents ==
    { [deltaX |-> 50, deltaY |-> 0, shiftKey |-> FALSE],
      [deltaX |-> -50, deltaY |-> 0, shiftKey |-> FALSE],
      [deltaX |-> 3, deltaY |-> 0, shiftKey |-> FALSE],
      [deltaX |-> 0, deltaY |-> 40, shiftKey |-> TRUE],
      [deltaX |-> 0, deltaY |-> 40, shiftKey |-> FALSE] }
TouchStartXs == {200}
TouchEndXs == {150, 151, 300}

HorizontalInit ==
    /\ now = MountTime
    /\ axis = "horizontal"
    /\ mounted = TRUE
    /\ totalSections = Total
    /\ sectionRefs = 0 .. (Total - 1)
    /\ currentSection = 0
    /\ isScrolling = FALSE
    /\ scrollTimeoutRef = NULL
    /\ timeouts = {}
    /\ lastScrollTime = 0
    /\ lastThrottleTime = 0
    /\ normalThrottle = HorizontalNormalThrottle
    /\ momentumThrottle = HorizontalMomentumThrottle
    /\ lastDelta = 0
    /\ lastDirection = 0
    /\ lastEventTime = 0
    /\ touchStartY = 0
    /\ touchStartTime = 0
    /\ isTouching = FALSE
    /\ lastOp = Op("mount", 0, FALSE, "done")
    /\ cascadeNavs = 0
    /\ urlCalls = <<>>
    /\ history = <<>>

HorizontalClock == \E dt \in TimeSteps : HorizontalTick(dt, MaxTime)

HorizontalNext ==
    \/ HorizontalClock
    \/ \E e \in HorizontalWheelEvents : HorizontalWheel(e)
    \/ \E x \in TouchStartXs : HorizontalTouchStart(x)
    \/ \E x \in TouchEndXs : HorizontalTouchEnd(x)
    \/ HorizontalTouchCancel
    \/ \E i \in SectionIndexes : ScrollToItem(i)
    \/ \E i \in SectionIndexes : HandleItemChange(i)
    \/ \E i \in SectionIndexes : HorizontalObserverFires(i)

HorizontalSpec ==
    /\ HorizontalInit
    /\ [][HorizontalNext]_vars
    /\ WF_vars(HorizontalClock)

(***************************************************************************)
(* AxisSpec: a component that mounts one of the two hooks and drives it    *)
(* with wheel events and with scrollToSection / scrollToItem calls.        *)
(***************************************************************************)
GestureWheelDeltas == {-50, 3, 50}

AxisInit == Init \/ HorizontalInit

AxisNext ==
    \/ axis = "vertical" /\ \E dt \in TimeSteps : Tick(dt, MaxTime)
    \/ axis = "vertical" /\ \E deltaY \in GestureWheelDeltas : Wheel(deltaY)
    \/ axis = "vertical" /\ \E i \in SectionIndexes : ScrollToSection(i)
    \/ axis = "vertical" /\ \E i \in SectionIndexes : ObserverFires(i)
    \/ axis = "vertical" /\ SafetyTimeoutFires
    \/ axis = "vertical" /\ CheckStuckState
    \/ axis = "horizontal" /\ HorizontalClock
    \/ axis = "horizontal" /\ \E e \in HorizontalWheelEvents : HorizontalWheel(e)
    \/ axis = "horizontal" /\ \E i \in SectionIndexes : ScrollToItem(i)
    \/ axis = "horizontal" /\ \E i \in SectionIndexes : HorizontalObserverFires(i)

AxisSpec == AxisInit /\ [][AxisNext]_vars

(***************************************************************************)
(* RefsSpec: the vertical hook while one of the sections may have no       *)
(* element registered in sectionRefs (a section the host does not render), *)
(* driven by wheel events and by the three calls the host makes.           *)
(***************************************************************************)
\* sectionRefs.current with at most one null entry.
RegisteredRefs == {(0 .. (Total - 1)) \ {j} : j \in -1 .. (Total - 1)}

RefsInit ==
    /\ now = MountTime
    /\ axis = "vertical"
    /\ mounted = TRUE
    /\ totalSections = Total
    /\ sectionRefs \in RegisteredRefs
    /\ currentSection = 0
    /\ isScrolling = FALSE
    /\ scrollTimeoutRef = NULL
    /\ timeouts = {}
    /\ lastScrollTime = 0
    /\ lastThrottleTime = 0
    /\ normalThrottle = VerticalNormalThrottle
    /\ momentumThrottle = VerticalMomentumThrottle
    /\ lastDelta = 0
    /\ lastDirection = 0
    /\ lastEventTime = 0
    /\ touchStartY = 0
    /\ touchStartTime = 0
    /\ isTouching = FALSE
    /\ lastOp = Op("mount", 0, FALSE, "done")
    /\ cascadeNavs = 0
    /\ urlCalls = <<>>
    /\ history = <<>>

RefsNext ==
    \/ \E dt \in TimeSteps : Tick(dt, MaxTime)
    \/ \E deltaY \in LiveWheelDeltas : Wheel(deltaY)
    \/ \E i \in SectionIndexes : ScrollToSection(i)
    \/ \E i \in SectionIndexes : HandlePopStateNavigation(i)
    \/ \E i \in SectionIndexes : HandleURLSectionChange(i)
    \/ \E i \in SectionIndexes : ObserverFires(i)
    \/ SafetyTimeoutFires
    \/ CheckStuckState

RefsSpec == RefsInit /\ [][RefsNext]_vars

(***************************************************************************)
(* TouchSpec: the vertical hook driven by touch gestures, with wheel       *)
(* events, scrollToSection calls and the observer in between.  The clock   *)
(* moves through the instants around the swipe duration limit.             *)
(***************************************************************************)
TouchOffsets == {0, 600, 800, 801, 1400, 2000}
TouchInstants == {MountTime + d : d \in TouchOffsets}

TouchClock ==
    \E t \in TouchInstants : t > now /\ Tick(t - now, MaxTime)

TouchNext ==
    \/ TouchClock
    \/ \E y \in TouchStartYs : TouchStart(y)
    \/ \E y \in TouchEndYs : TouchEnd(y)
    \/ TouchCancel
    \/ \E deltaY \in GestureWheelDeltas : Wheel(deltaY)
    \/ \E i \in LiveSectionIndexes : ScrollToSection(i)
    \/ \E i \in LiveSectionIndexes : ObserverFires(i)
    \/ SafetyTimeoutFires
    \/ CheckStuckState

TouchSpec == Init /\ [][TouchNext]_vars

(***************************************************************************)
(* LifecycleSpec: the vertical hook from mount to unmount.  The host calls *)
(* scrollToSection, re-renders with another totalSections and unmounts the *)
(* component; wheel events and observer reports come in between.  Inputs   *)
(* arrive during the first LiveInputWindow ms; the clock then runs on past *)
(* the safety timeout and the watchdog threshold of every transition.      *)
(* After the unmount the listeners are removed and the observer is         *)
(* disconnected: only the clock and the timers still pending can act.      *)
(***************************************************************************)
\* Unmount: the cleanup of the observer effect clears the timeout
\* scrollTimeoutRef names; the cleanup of the watchdog effect clears the
\* interval.
Unmount_keepsTimeout ==
    /\ mounted
    /\ mounted' = FALSE
    /\ UNCHANGED timeouts
    /\ lastOp' = Op("unmount", 0, FALSE, "done")
    /\ urlCalls' = <<>>
    /\ UNCHANGED <<now, axis, totalSections, sectionRefs, normalThrottle,
                   momentumThrottle, currentSection, isScrolling,
                   scrollTimeoutRef, lastScrollTime, lastThrottleTime,
                   classifierVars, touchVars, cascadeNavs, history>>
Unmount ==
    /\ mounted
    /\ mounted' = FALSE
    /\ timeouts' = clearTimeout(timeouts, scrollTimeoutRef)
    /\ lastOp' = Op("unmount", 0, FALSE, "done")
    /\ urlCalls' = <<>>
    /\ UNCHANGED <<now, axis, totalSections, sectionRefs, normalThrottle,
                   momentumThrottle, currentSection, isScrolling,
                   scrollTimeoutRef, lastScrollTime, lastThrottleTime,
                   classifierVars, touchVars, cascadeNavs, history>>

LifecycleTimeSteps == {400, 1000}

LifecycleTick == \E dt \in LifecycleTimeSteps : Tick(dt, LiveMaxTime)

LifecycleNext ==
    \/ LifecycleTick
    \/ mounted /\ inputWindowOpen /\ \E deltaY \in LiveWheelDeltas : Wheel(deltaY)
    \/ mounted /\ inputWindowOpen /\ \E i \in LiveSectionIndexes : ScrollToSection(i)
    \/ mounted /\ inputWindowOpen /\ \E n \in LiveTotals : SetTotalSections(n)
    \/ mounted /\ inputWindowOpen /\ \E i \in LiveSectionIndexes : ObserverFires(i)
    \/ Unmount
    \/ SafetyTimeoutFires
    \/ CheckStuckState

LifecycleSpec == Init /\ [][LifecycleNext]_vars

(***************************************************************************)
(* ThrottleSpec: one useScrollThrottle instance on its own.  The props are *)
(* the defaults or the values one of the hooks passes; the clock moves     *)
(* through the instants around the durations.                              *)
(***************************************************************************)
ThrottleConfigs ==
    { <<DefaultNormalThrottle, DefaultMomentumThrottle>>,
      <<VerticalNormalThrottle, VerticalMomentumThrottle>>,
      <<DocNormalThrottle, DocMomentumThrottle>> }
ThrottleOffsets == {0, 399, 400, 599, 600, 1199, 1200, 1799, 1800}
ThrottleInstants == ThrottleOffsets \cup {MountTime + d : d \in ThrottleOffsets}

hookIdle ==
    /\ axis = "vertical"
    /\ mounted = TRUE
    /\ totalSections = Total
    /\ sectionRefs = 0 .. (Total - 1)
    /\ currentSection = 0
    /\ isScrolling = FALSE
    /\ scrollTimeoutRef = NULL
    /\ timeouts = {}
    /\ lastScrollTime = 0
    /\ touchStartY = 0
    /\ touchStartTime = 0
    /\ isTouching = FALSE
    /\ cascadeNavs = 0
    /\ urlCalls = <<>>

hookVars == <<axis, mounted, totalSections, sectionRefs, currentSection, isScrolling,
              scrollTimeoutRef, timeouts, lastScrollTime, touchVars, cascadeNavs,
              urlCalls>>

ThrottleInit ==
    /\ hookIdle
    /\ now \in {0, MountTime}
    /\ \E c \in ThrottleConfigs : normalThrottle = c[1] /\ momentumThrottle = c[2]
    /\ lastThrottleTime = 0
    /\ lastDelta = 0
    /\ lastDirection = 0
    /\ lastEventTime = 0
    /\ history = <<>>
    /\ lastOp = Op("mount", 0, FALSE, "done")

throttleFrame ==
    UNCHANGED <<hookVars, normalThrottle, momentumThrottle, classifierVars, history>>

ThrottleTick ==
    /\ \E t \in ThrottleInstants : t > now /\ now' = t
    /\ lastOp' = Op("tick", 0, FALSE, "done")
    /\ UNCHANGED lastThrottleTime
    /\ throttleFrame

\* isThrottled(isMomentumScroll)
IsThrottled(isMomentum) ==
    /\ lastOp' = Op("isThrottled", 0, isMomentum,
                    BoolStr(isThrottled(isMomentum, now, lastThrottleTime,
                                        normalThrottle, momentumThrottle)))
    /\ UNCHANGED <<now, lastThrottleTime>>
    /\ throttleFrame

\* updateThrottle()
UpdateThrottle ==
    /\ updateThrottle
    /\ lastOp' = Op("updateThrottle", 0, FALSE, "done")
    /\ UNCHANGED now
    /\ throttleFrame

\* getThrottleStatus(isMomentumScroll): arg is remainingTime, outcome is
\* the isThrottled field (remainingTime > 0)
GetThrottleStatus(isMomentum) ==
    LET r == remainingTime(isMomentum, now, lastThrottleTime, normalThrottle,
                           momentumThrottle)
    IN /\ lastOp' = Op("getThrottleStatus", r, isMomentum, BoolStr(r > 0))
       /\ UNCHANGED <<now, lastThrottleTime>>
       /\ throttleFrame

\* reset()
Reset ==
    /\ reset
    /\ lastOp' = Op("reset", 0, FALSE, "done")
    /\ UNCHANGED now
    /\ throttleFrame

ThrottleNext ==
    \/ ThrottleTick
    \/ \E isMomentum \in BOOLEAN : IsThrottled(isMomentum)
    \/ UpdateThrottle
    \/ \E isMomentum \in BOOLEAN : GetThrottleStatus(isMomentum)
    \/ Reset

ThrottleSpec == ThrottleInit /\ [][ThrottleNext]_vars

(***************************************************************************)
(* ClassifierSpec: one useTouchpadDetection instance on its own, given up  *)
(* to MaxSamples wheel events at chosen instants.                          *)
(***************************************************************************)
ClassifierDeltas == {-50, 0, 40, 50, 60}
ValidDeltaInputs == {-50, -4, -3, 0, 3, 4}
ClassifierInstants == {0, 10, 1499, 1500, 1510, 2000, MountTime}

ClassifierInit ==
    /\ hookIdle
    /\ now \in {0, 10, MountTime}
    /\ normalThrottle = VerticalNormalThrottle
    /\ momentumThrottle = VerticalMomentumThrottle
    /\ lastThrottleTime = 0
    /\ lastDelta = 0
    /\ lastDirection = 0
    /\ lastEventTime = 0
    /\ history = <<>>
    /\ lastOp = Op("mount", 0, FALSE, "done")

classifierFrame ==
    UNCHANGED <<hookVars, normalThrottle, momentumThrottle, lastThrottleTime>>

ClassifierTick ==
    /\ \E t \in ClassifierInstants : t > now /\ now' = t
    /\ lastOp' = Op("tick", 0, FALSE, "done")
    /\ UNCHANGED <<classifierVars, history>>
    /\ classifierFrame

\* detectInertia(e) with e.deltaY = deltaY
DetectInertia(deltaY) ==
    LET isMomentum == isMomentumScroll(deltaY, now, lastDelta, lastDirection,
                                       lastEventTime)
    IN /\ Len(history) < MaxSamples
       /\ detectInertiaUpdate(deltaY)
       /\ history' = Append(history, [t |-> now, deltaY |-> deltaY,
                                      momentum |-> isMomentum])
       /\ lastOp' = Op("detectInertia", deltaY, isMomentum, BoolStr(isMomentum))
       /\ UNCHANGED now
       /\ classifierFrame

\* isValidDelta(deltaY)
IsValidDelta(deltaY) ==
    /\ lastOp' = Op("isValidDelta", deltaY, FALSE, BoolStr(isValidDelta(deltaY)))
    /\ UNCHANGED <<now, classifierVars, history>>
    /\ classifierFrame

ClassifierNext ==
    \/ ClassifierTick
    \/ \E deltaY \in ClassifierDeltas : DetectInertia(deltaY)
    \/ \E deltaY \in ValidDeltaInputs : IsValidDelta(deltaY)

ClassifierSpec == ClassifierInit /\ [][ClassifierNext]_vars

(***************************************************************************)
(* ScenarioSpec: the vertical hook with five sections, given one scripted  *)
(* stream of wheel events (instants are relative to mount).  The observer  *)
(* may report a section at any moment; the timers run as in Spec.          *)
(***************************************************************************)
ScenarioEvents ==
    << [t |-> 0, deltaY |-> 50], [t |-> 20, deltaY |-> 40],
       [t |-> 45, deltaY |-> 28], [t |-> 5000, deltaY |-> 10] >>
ScenarioInstants == {MountTime + ScenarioEvents[i].t : i \in DOMAIN ScenarioEvents}
ScenarioSteps == {500}
ScenarioMaxTime == MountTime + ScenarioEvents[Len(ScenarioEvents)].t + SafetyTimeout

ScenarioInit ==
    /\ now = MountTime
    /\ axis = "vertical"
    /\ mounted = TRUE
    /\ totalSections = ScenarioTotal
    /\ sectionRefs = 0 .. (ScenarioTotal - 1)
    /\ currentSection = 0
    /\ isScrolling = FALSE
    /\ scrollTimeoutRef = NULL
    /\ timeouts = {}
    /\ lastScrollTime = 0
    /\ lastThrottleTime = 0
    /\ normalThrottle = VerticalNormalThrottle
    /\ momentumThrottle = VerticalMomentumThrottle
    /\ lastDelta = 0
    /\ lastDirection = 0
    /\ lastEventTime = 0
    /\ touchStartY = 0
    /\ touchStartTime = 0
    /\ isTouching = FALSE
    /\ lastOp = Op("mount", 0, FALSE, "done")
    /\ cascadeNavs = 0
    /\ urlCalls = <<>>
    /\ history = <<>>

\* The scripted event of this instant has not been dispatched yet
\* (detectInertia stamps lastEventTime with the instant of the last event).
scenarioEventDue == now \in ScenarioInstants /\ lastEventTime < now

\* The wheel event the script dispatches at this instant.
ScenarioWheel ==
    \E i \in DOMAIN ScenarioEvents :
        /\ now = MountTime + ScenarioEvents[i].t
        /\ scenarioEventDue
        /\ Wheel(ScenarioEvents[i].deltaY)

\* The clock stops at every scripted instant until its event is dispatched.
ScenarioTick ==
    /\ ~scenarioEventDue
    /\ \E dt \in ScenarioSteps \cup {t - now : t \in {u \in ScenarioInstants : u > now}} :
          Tick(dt, ScenarioMaxTime)
    /\ \A t \in ScenarioInstants : now < t => now' <= t

ScenarioNext ==
    \/ ScenarioTick
    \/ ScenarioWheel
    \/ \E i \in 0 .. (ScenarioTotal - 1) : ObserverFires(i)
    \/ SafetyTimeoutFires
    \/ CheckStuckState

ScenarioSpec == ScenarioInit /\ [][ScenarioNext]_vars

(***************************************************************************)
(* Claims checked under Spec                                               *)
(***************************************************************************)
\* The delta a gesture handler has just computed: e.deltaY for a wheel
\* event, touchStartY - touchEndY for a touch end.
gestureDelta(op) ==
    IF op.op = "wheel" THEN op.arg ELSE touchStartY - op.arg

\* C1: a wheel event handled while isScrolling is true starts no navigation,
\* whatever its delta, its label and the throttle: it returns as noise or as
\* locked and leaves currentSection, the lock, the timer and the throttle
\* as they were.
C1_WheelRejectedWhileScrolling ==
    [][(lastOp'.op = "wheel" /\ isScrolling)
          => (/\ lastOp'.outcome \in {"noise", "locked"}
              /\ UNCHANGED navVars)]_vars

\* C1 witness: a wheel sample of the cascade whose first sample was accepted
\* is rejected by the lock alone: it is significant and both throttle
\* tiers have expired.
C1_Witness ==
    /\ lastOp.op = "wheel"
    /\ lastOp.outcome = "locked"
    /\ isScrolling
    /\ cascadeNavs = 1
    /\ now - lastThrottleTime >= momentumThrottle
    /\ now - lastThrottleTime >= normalThrottle

\* C2: the samples of one wheel cascade start at most one navigation.
C2_OneNavigationPerCascade == cascadeNavs <= 1

\* C4: currentSection stays within [0, totalSections - 1], and a wheel or
\* touch step whose target lies outside that range leaves currentSection
\* unchanged.
C4_IndexInRange ==
    /\ [](currentSection \in 0 .. (totalSections - 1))
    /\ [][(/\ lastOp'.op \in {"wheel", "touchEnd"}
           /\ currentSection + Sign(gestureDelta(lastOp'))
                 \notin 0 .. (totalSections - 1))
             => currentSection' = currentSection]_vars

\* C4 witness: a forward gesture at the last section was stopped by the
\* bounds check alone.
C4_Witness ==
    /\ lastOp.op \in {"wheel", "touchEnd"}
    /\ lastOp.outcome = "bounds"
    /\ currentSection = totalSections - 1

\* C5: a navigation started by a wheel or touch gesture moves currentSection
\* by exactly one position, in the direction of the sign of the delta.
C5_GestureMovesOneSection ==
    [][lastOp'.op \in {"wheel", "touchEnd"}
          => (/\ lastOp'.outcome = "accepted"
                   => currentSection' = currentSection + Sign(gestureDelta(lastOp'))
              /\ lastOp'.outcome # "accepted"
                   => currentSection' = currentSection)]_vars

\* C5 witness: a wheel event of magnitude 50 was accepted.
C5_Witness ==
    /\ lastOp.op = "wheel"
    /\ lastOp.outcome = "accepted"
    /\ Abs(lastOp.arg) = 50
    /\ currentSection = 1

\* C6: a wheel event labelled momentum starts no navigation less than
\* 1800 ms after the last accepted one, and a wheel event labelled
\* intentional none less than 600 ms after it.
C6_DocumentedThrottles ==
    [][(lastOp'.op = "wheel" /\ lastOp'.outcome = "accepted")
          => now - lastThrottleTime >=
                 (IF lastOp'.momentum THEN DocMomentumThrottle
                  ELSE DocNormalThrottle)]_vars

\* C13: the observer callback is idempotent.  Run while isScrolling is
\* false it leaves isScrolling, currentSection, the throttle timestamp,
\* lastScrollTime and the pending timers as they were; run directly after
\* another run of itself it changes nothing at all.  It always leaves
\* isScrolling false and never touches currentSection or the throttle.
C13_ObserverIdempotent ==
    [][lastOp'.op = "observer" =>
          /\ ~isScrolling'
          /\ UNCHANGED <<currentSection, lastThrottleTime, lastScrollTime>>
          /\ ~isScrolling => UNCHANGED <<isScrolling, timeouts>>
          /\ lastOp.op = "observer" => UNCHANGED navVars]_vars

\* C13 witness: after a navigation to section 1 the observer callback has
\* run while isScrolling was already false.
C13_Witness ==
    /\ lastOp.op = "observer"
    /\ lastOp.outcome = "idle"
    /\ currentSection = 1
    /\ lastThrottleTime >= MountTime
    /\ ~isScrolling
    /\ timeouts = {}

\* The calls the host makes: scrollToSection, handlePopStateNavigation,
\* handleURLSectionChange.
programmaticOps == {"scrollToSection", "popState", "urlChange"}

\* C14: scrollToSection, handlePopStateNavigation and handleURLSectionChange
\* called with an index that has a registered element set currentSection to
\* that index, whatever isScrolling and the throttle say.
C14_ProgrammaticJumpHonoured ==
    [][(lastOp'.op \in programmaticOps /\ lastOp'.arg \in sectionRefs)
          => (currentSection' = lastOp'.arg /\ lastOp'.outcome = "accepted")]_vars

\* C14 witness: handlePopStateNavigation(0) has moved currentSection to 0
\* while isScrolling was true and the normal throttle window of the
\* navigation to section 1 was still open.
C14_Witness ==
    /\ lastOp.op = "popState"
    /\ lastOp.arg = 0
    /\ currentSection = 0
    /\ isScrolling
    /\ lastThrottleTime >= MountTime
    /\ now - lastThrottleTime < normalThrottle

\* C15: handlePopStateNavigation and handleURLSectionChange leave the
\* throttle timestamp, isScrolling, lastScrollTime and the pending safety
\* timeout as they were, and do not call updateURL.
C15_PopStateLeavesLockAndThrottle ==
    [][lastOp'.op \in {"popState", "urlChange"}
          => (/\ UNCHANGED <<lastThrottleTime, isScrolling, lastScrollTime,
                             timeouts, scrollTimeoutRef>>
              /\ urlCalls' = <<>>)]_vars

\* C15 witness: handleURLSectionChange(2) has moved a freshly mounted hook
\* to section 2: no lock, no timer, no throttle stamp, no updateURL call.
C15_Witness ==
    /\ lastOp.op = "urlChange"
    /\ lastOp.arg = 2
    /\ currentSection = 2
    /\ ~isScrolling
    /\ timeouts = {}
    /\ lastScrollTime = 0
    /\ lastThrottleTime = 0
    /\ urlCalls = <<>>

\* C16: updateURL is called exactly once, with the new currentSection, by
\* every accepted wheel step, touch step and scrollToSection call; it is not
\* called by a wheel or touch step that is rejected (noise, locked,
\* throttled, out of range, too short, too slow), nor by
\* handlePopStateNavigation or handleURLSectionChange.
C16_URLUpdatedOncePerAcceptedJump ==
    [][/\ (lastOp'.op \in {"wheel", "touchEnd", "scrollToSection"}
              /\ lastOp'.outcome = "accepted")
            => urlCalls' = <<currentSection'>>
       /\ (lastOp'.op \in {"wheel", "touchEnd", "scrollToSection"}
              /\ lastOp'.outcome # "accepted")
            => urlCalls' = <<>>
       /\ lastOp'.op \in {"popState", "urlChange"} => urlCalls' = <<>>]_vars

\* C16 witness: an accepted touch step to section 1 has called updateURL(1)
\* once.
C16_Witness ==
    /\ lastOp.op = "touchEnd"
    /\ lastOp.outcome = "accepted"
    /\ currentSection = 1
    /\ urlCalls = <<1>>

\* C19: a wheel or touch step that is rejected only because its target lies
\* outside [0, totalSections - 1] leaves the throttle timestamp, isScrolling,
\* the timers and currentSection as they were and calls no updateURL.  So a
\* gesture towards a section within range handled directly after it is
\* throttled only if the window of the last accepted navigation is still
\* open, and a wheel event handled directly after a wheel event rejected
\* that way is labelled intentional.
C19_BoundsRejectionKeepsThrottle ==
    [][/\ (lastOp'.op \in {"wheel", "touchEnd"} /\ lastOp'.outcome = "bounds")
            => (UNCHANGED navVars /\ urlCalls' = <<>>)
       /\ (/\ lastOp.op \in {"wheel", "touchEnd"}
           /\ lastOp.outcome = "bounds"
           /\ lastOp'.op \in {"wheel", "touchEnd"}
           /\ currentSection + Sign(gestureDelta(lastOp'))
                 \in 0 .. (totalSections - 1))
            => /\ lastOp'.outcome = "throttled"
                    => now - lastThrottleTime <
                          (IF lastOp'.momentum THEN momentumThrottle
                           ELSE normalThrottle)
               /\ (lastOp.op = "wheel" /\ lastOp'.op = "wheel")
                    => ~lastOp'.momentum]_vars

\* C19 witness: back at section 0 after an accepted navigation whose normal
\* throttle window has passed, a backward wheel event has been rejected by
\* the bounds check; the throttle timestamp is still that of the accepted
\* navigation.
C19_Witness ==
    /\ lastOp.op = "wheel"
    /\ lastOp.arg = -50
    /\ lastOp.outcome = "bounds"
    /\ currentSection = 0
    /\ ~isScrolling
    /\ lastThrottleTime >= MountTime
    /\ now - lastThrottleTime >= normalThrottle
    /\ lastThrottleTime < now

\* C29: the observer callback clears isScrolling only when the section it
\* reports is currentSection; a report for another section leaves
\* isScrolling true.
C29_ObserverClearsForTargetOnly ==
    [][(lastOp'.op = "observer" /\ lastOp'.arg # currentSection /\ isScrolling)
          => isScrolling']_vars

(***************************************************************************)
(* Claims checked under LiveSpec                                           *)
(***************************************************************************)
\* C3: whenever isScrolling is true it later becomes false, without any
\* help from the observer: the safety timeout or the watchdog clears it.
C3_EventuallyUnlocked == isScrolling ~> ~isScrolling

\* C3 witness: the watchdog has just unlocked a transition whose safety
\* timeout had been cancelled.
C3_Witness ==
    /\ lastOp.op = "watchdog"
    /\ lastOp.outcome = "unlocked"
    /\ ~isScrolling

\* C12: a run of checkStuckState sets isScrolling to false when isScrolling
\* is true and more than 5000 ms have passed since lastScrollTime, and leaves
\* it as it was otherwise (at exactly 5000 ms, and when it is already
\* false); 6000 ms after lastScrollTime one run unlocks.  It touches neither
\* currentSection nor the throttle.
C12_WatchdogBoundary ==
    [][lastOp'.op = "watchdog" =>
          /\ isScrolling' = (isScrolling /\ ~(now - lastScrollTime > 5000))
          /\ (isScrolling /\ lastScrollTime = now - 6000) => ~isScrolling'
          /\ (now - lastScrollTime = 5000) => isScrolling' = isScrolling
          /\ UNCHANGED <<currentSection, lastScrollTime, lastThrottleTime>>]_vars

\* C12 witness: checkStuckState has run 6000 ms after the transition began,
\* found isScrolling still true, and cleared it.
C12_Witness ==
    /\ lastOp.op = "watchdog"
    /\ lastOp.outcome = "unlocked"
    /\ now - lastScrollTime = 6000
    /\ ~isScrolling

\* C30: the observer callback, the safety timeout and checkStuckState leave
\* currentSection and the throttle timestamp as they were and never turn
\* isScrolling from false to true.
C30_CompletionOnlyClearsLock ==
    [][lastOp'.op \in {"observer", "safetyTimeout", "watchdog"}
          => (/\ UNCHANGED <<currentSection, lastThrottleTime>>
              /\ isScrolling' => isScrolling)]_vars

\* C30 witness: the safety timeout has cleared the lock of the navigation
\* to section 1, 2000 ms after it began.
C30_Witness ==
    /\ lastOp.op = "safetyTimeout"
    /\ lastOp.outcome = "unlocked"
    /\ ~isScrolling
    /\ currentSection = 1
    /\ now - lastThrottleTime = 2000
    /\ now - lastScrollTime = 2000

\* C31: a scrollToSection call accepted while isScrolling is true stamps
\* lastScrollTime with the present time and leaves exactly one safety
\* timeout pending, due 2000 ms from now: the timer of the earlier
\* transition is gone.  isScrolling then stays true until the observer
\* reports a section or until at least 2000 ms after the latest
\* lastScrollTime.
C31_JumpSupersedesTransition ==
    [][/\ (/\ lastOp'.op = "scrollToSection"
           /\ lastOp'.outcome = "accepted"
           /\ isScrolling)
            => /\ isScrolling'
               /\ lastScrollTime' = now
               /\ currentSection' = lastOp'.arg
               /\ timeouts' = {now + 2000}
       /\ (isScrolling /\ ~isScrolling')
            => (lastOp'.op = "observer" \/ now - lastScrollTime >= 2000)]_vars

\* C31 witness: a wheel step to section 1 at mount was superseded 1000 ms
\* later by scrollToSection(0); the instant at which the first timer was due
\* has passed, and the second timer has cleared the lock 2000 ms after the
\* second start.
C31_Witness ==
    /\ lastOp.op = "safetyTimeout"
    /\ lastOp.outcome = "unlocked"
    /\ lastEventTime = MountTime
    /\ cascadeNavs = 1
    /\ currentSection = 0
    /\ lastScrollTime = MountTime + 1000
    /\ now = lastScrollTime + 2000
    /\ ~isScrolling

(***************************************************************************)
(* Claims checked under LifecycleSpec                                      *)
(***************************************************************************)
\* C32: the watchdog clears isScrolling on its own.  While the hook is
\* mounted isScrolling is never still true more than 6000 ms after
\* lastScrollTime, also when the safety timeout was cancelled by a re-render
\* with another totalSections; a run of checkStuckState more than 5000 ms
\* after lastScrollTime clears the flag with no safety timeout pending.
C32_WatchdogBackstop ==
    /\ []((mounted /\ isScrolling) => now - lastScrollTime <= 6000)
    /\ [][(/\ lastOp'.op = "watchdog"
           /\ isScrolling
           /\ timeouts = {}
           /\ now - lastScrollTime > 5000)
            => ~isScrolling']_vars

\* C32 witness: a re-render with another totalSections cancelled the safety
\* timeout of a transition that began between two interval ticks; the first
\* tick more than 5000 ms after the start has cleared the flag.
C32_Witness ==
    /\ lastOp.op = "watchdog"
    /\ lastOp.outcome = "unlocked"
    /\ totalSections # Total
    /\ now - lastScrollTime > 5000
    /\ now - lastScrollTime < 6000
    /\ ~isScrolling

\* C37: after the unmount no timer acts on the hook: no safety timeout is
\* pending, the interval runs checkStuckState no more, and no later step
\* changes isScrolling, currentSection, the throttle timestamp or any other
\* ref of the hook.
C37_NoTimerAfterUnmount ==
    /\ [](~mounted => timeouts = {})
    /\ [][~mounted => (/\ UNCHANGED <<navVars, classifierVars, touchVars>>
                       /\ lastOp'.op \notin {"safetyTimeout", "watchdog"})]_vars

\* C37 witness: the component was unmounted while a transition was under
\* way; the clock has since passed the instant of the safety timeout and
\* the interval tick at which checkStuckState would have unlocked, and
\* isScrolling is still true.
C37_Witness ==
    /\ ~mounted
    /\ isScrolling
    /\ lastScrollTime >= MountTime
    /\ now - lastScrollTime > 6000
    /\ lastOp.op = "tick"

\* C40: at most one safety timeout is pending and it is the one armed by
\* the latest scrollToSection call, due 2000 ms after lastScrollTime; the
\* timeout callback never clears isScrolling earlier than 2000 ms after
\* lastScrollTime; an observer report and a force-unlock by checkStuckState
\* leave no timeout pending.
C40_OneSafetyTimeout ==
    /\ [](Cardinality(timeouts) <= 1)
    /\ [](\A due \in timeouts : due = lastScrollTime + 2000)
    /\ [][/\ lastOp'.op = "safetyTimeout" => now - lastScrollTime >= 2000
          /\ lastOp'.op = "observer" => timeouts' = {}
          /\ (lastOp'.op = "watchdog" /\ lastOp'.outcome = "unlocked")
               => timeouts' = {}]_vars

\* C40 witness: the observer has reported a section 400 ms after a
\* transition that began 400 ms after mount; the pending timeout is
\* cancelled and the lock is cleared.
C40_Witness ==
    /\ lastOp.op = "observer"
    /\ lastOp.outcome = "unlocked"
    /\ lastScrollTime = MountTime + 400
    /\ now = lastScrollTime + 400
    /\ timeouts = {}
    /\ scrollTimeoutRef = NULL
    /\ ~isScrolling

(***************************************************************************)
(* Claims checked under ThrottleSpec                                       *)
(***************************************************************************)
\* C7: isThrottled(isMomentum) is true exactly when now - lastThrottleTime
\* is strictly less than the duration isMomentum selects; with 600/1800 and
\* the last action at 0 it is true at 599 and false at 600 for an
\* intentional event, true at 1799 and false at 1800 for a momentum event.
C7_IsThrottledBoundary ==
    lastOp.op = "isThrottled" =>
        /\ lastOp.outcome = "true" <=>
              now - lastThrottleTime <
                 (IF lastOp.momentum THEN momentumThrottle ELSE normalThrottle)
        /\ (normalThrottle = 600 /\ momentumThrottle = 1800 /\ lastThrottleTime = 0) =>
              /\ (~lastOp.momentum /\ now = 599) => lastOp.outcome = "true"
              /\ (~lastOp.momentum /\ now = 600) => lastOp.outcome = "false"
              /\ (lastOp.momentum /\ now = 1799) => lastOp.outcome = "true"
              /\ (lastOp.momentum /\ now = 1800) => lastOp.outcome = "false"

\* C7 witness: with 600/1800 and the last action at 0, isThrottled(true) has
\* answered false at 1800.
C7_Witness ==
    /\ lastOp.op = "isThrottled"
    /\ lastOp.momentum
    /\ normalThrottle = 600
    /\ momentumThrottle = 1800
    /\ lastThrottleTime = 0
    /\ now = 1800
    /\ lastOp.outcome = "false"

\* C34: under a clock that never runs backwards, updateThrottle stamps
\* lastThrottleTime with the present time and never lowers it; the only
\* operation that lowers it is reset, which sets it to 0.
C34_ThrottleTimeMonotonic ==
    [][/\ now' >= now
       /\ lastOp'.op = "updateThrottle"
            => (lastThrottleTime' = now /\ lastThrottleTime' >= lastThrottleTime)
       /\ lastThrottleTime' < lastThrottleTime
            => (lastOp'.op = "reset" /\ lastThrottleTime' = 0)]_vars

\* C34 witness: updateThrottle has been called 1800 ms after mount and has
\* moved the timestamp forward to the present time.
C34_Witness ==
    /\ lastOp.op = "updateThrottle"
    /\ now = MountTime + 1800
    /\ lastThrottleTime = now

C36_StatusAgreesWithIsThrottled ==
    [][/\ lastOp'.op = "getThrottleStatus" =>
             LET elapsed == now - lastThrottleTime
                 duration == IF lastOp'.momentum THEN momentumThrottle
                             ELSE normalThrottle
             IN /\ lastOp'.outcome =
                      BoolStr(isThrottled(lastOp'.momentum, now, lastThrottleTime,
                                          normalThrottle, momentumThrottle))
                /\ lastOp'.outcome = "true" <=> elapsed < duration
                /\ lastOp'.arg = IF duration - elapsed > 0
                                 THEN duration - elapsed ELSE 0
                /\ lastOp'.arg >= 0
       /\ lastOp'.op \in {"getThrottleStatus", "isThrottled"}
             => UNCHANGED lastThrottleTime]_vars

\* C36 witness: 1800 ms after an update, getThrottleStatus(true) under
\* 600/1200 has answered not throttled with remainingTime 0 (the difference
\* is -600).
C36_Witness ==
    /\ lastOp.op = "getThrottleStatus"
    /\ lastOp.momentum
    /\ momentumThrottle = 1200
    /\ lastThrottleTime = MountTime
    /\ now = MountTime + 1800
    /\ lastOp.arg = 0
    /\ lastOp.outcome = "false"

(***************************************************************************)
(* Claims checked under ClassifierSpec                                     *)
(***************************************************************************)
\* The sample before the i-th one: the refs start at 0, 0, 0.
previousSample(i) ==
    IF i = 1 THEN [t |-> 0, deltaY |-> 0, momentum |-> FALSE] ELSE history[i - 1]

\* C8: a sample is labelled momentum iff it comes less than minTimeGap after
\* the previous sample, the previous direction is non-zero and equal to its
\* own, and its magnitude is at most the previous one; the samples
\* (0, +50), (10, +40), (2000, +60) are labelled intentional, momentum,
\* intentional.
C8_MomentumIffAllThree ==
    /\ \A i \in 1 .. Len(history) :
          history[i].momentum <=>
             /\ history[i].t - previousSample(i).t < minTimeGap
             /\ Sign(previousSample(i).deltaY) # 0
             /\ Sign(history[i].deltaY) = Sign(previousSample(i).deltaY)
             /\ Abs(history[i].deltaY) <= Abs(previousSample(i).deltaY)
    /\ (/\ Len(history) >= 3
        /\ <<history[1].t, history[2].t, history[3].t>> = <<0, 10, 2000>>
        /\ <<history[1].deltaY, history[2].deltaY, history[3].deltaY>> = <<50, 40, 60>>)
          => <<history[1].momentum, history[2].momentum, history[3].momentum>>
                = <<FALSE, TRUE, FALSE>>

\* C8 witness: the three samples of the truth table have been classified.
C8_Witness ==
    /\ Len(history) >= 3
    /\ <<history[1].t, history[2].t, history[3].t>> = <<0, 10, 2000>>
    /\ <<history[1].deltaY, history[2].deltaY, history[3].deltaY>> = <<50, 40, 60>>
    /\ <<history[1].momentum, history[2].momentum, history[3].momentum>>
          = <<FALSE, TRUE, FALSE>>

\* C9: the first sample of a stream is intentional, and so is a sample that
\* directly follows a sample of direction 0.
C9_FirstSampleIntentional ==
    \A i \in 1 .. Len(history) :
        (i = 1 \/ Sign(previousSample(i).deltaY) = 0) => ~history[i].momentum

\* C9 witness: a first sample of delta 0 at time 10, then a second sample of
\* delta 0 less than minTimeGap later: time, direction and magnitude all
\* match the refs, and both are intentional.
C9_Witness ==
    /\ Len(history) >= 2
    /\ history[1].t = 10
    /\ history[1].deltaY = 0
    /\ history[2].deltaY = 0
    /\ history[2].t - history[1].t < minTimeGap
    /\ ~history[1].momentum
    /\ ~history[2].momentum

\* C10: isValidDelta(d) is false exactly when |d| < minDelta, for d of
\* either sign: isValidDelta(3) is false and isValidDelta(4) is true.
C10_ValidDeltaBoundary ==
    lastOp.op = "isValidDelta" =>
        /\ lastOp.outcome = "false" <=> Abs(lastOp.arg) < minDelta
        /\ lastOp.arg = 3 => lastOp.outcome = "false"
        /\ lastOp.arg = 4 => lastOp.outcome = "true"

\* C10 witness: isValidDelta(-4) has answered true.
C10_Witness ==
    /\ lastOp.op = "isValidDelta"
    /\ lastOp.arg = -4
    /\ lastOp.outcome = "true"

\* C33: after every detectInertia call, whatever label it returned,
\* lastDelta, lastDirection and lastEventTime are the absolute delta, the
\* sign and the time of that call's sample: after N calls they reflect the
\* N-th sample (before the first call they are 0), and no other operation
\* writes them.
C33_RefsReflectLastSample ==
    /\ [](IF history = <<>>
          THEN lastDelta = 0 /\ lastDirection = 0 /\ lastEventTime = 0
          ELSE /\ lastDelta = Abs(history[Len(history)].deltaY)
               /\ lastDirection = Sign(history[Len(history)].deltaY)
               /\ lastEventTime = history[Len(history)].t)
    /\ [][IF lastOp'.op = "detectInertia"
          THEN /\ lastDelta' = Abs(lastOp'.arg)
               /\ lastDirection' = Sign(lastOp'.arg)
               /\ lastEventTime' = now
          ELSE UNCHANGED classifierVars]_vars

\* C33 witness: the second sample, 40 at 1499 after 50 at 10, was labelled
\* momentum and the refs hold that second sample.
C33_Witness ==
    /\ lastOp.op = "detectInertia"
    /\ Len(history) = 2
    /\ history[1].deltaY = 50
    /\ history[1].t = 10
    /\ history[2].momentum
    /\ history[2].deltaY = 40
    /\ lastDelta = 40
    /\ lastDirection = 1
    /\ lastEventTime = 1499

(***************************************************************************)
(* Claims checked under AxisSpec                                           *)
(***************************************************************************)
\* C17: scrollToSection and scrollToItem called with an index outside
\* [0, total - 1] change nothing: currentSection, isScrolling,
\* lastScrollTime, the pending timers and the throttle timestamp stay as
\* they were, and updateURL / updateActiveItem is not called.
C17_JumpOutOfRangeIsNoOp ==
    [][(/\ lastOp'.op \in {"scrollToSection", "scrollToItem"}
        /\ lastOp'.arg \notin 0 .. (totalSections - 1))
          => (UNCHANGED navVars /\ urlCalls' = <<>>)]_vars

\* C17 witness: with the horizontal hook at item 1 after one accepted step,
\* scrollToItem(totalItems) has returned without effect.
C17_Witness ==
    /\ axis = "horizontal"
    /\ lastOp.op = "scrollToItem"
    /\ lastOp.arg = totalSections
    /\ lastOp.outcome = "noElement"
    /\ currentSection = 1
    /\ lastThrottleTime >= MountTime
    /\ urlCalls = <<>>

\* C28: in either hook a wheel event with |delta| below minDelta starts no
\* navigation, whatever its label, the lock and the throttle: currentSection,
\* isScrolling, the timers and the throttle timestamp stay as they were and
\* updateURL is not called.
C28_NoiseStartsNoNavigation ==
    [][(lastOp'.op = "wheel" /\ Abs(lastOp'.arg) < minDelta)
          => (/\ lastOp'.outcome \in {"noise", "zero"}
              /\ UNCHANGED navVars
              /\ urlCalls' = <<>>)]_vars

\* C28 witness: a wheel event of delta 3 has been dropped although the hook
\* was idle at section 1 with both throttle windows expired.
C28_Witness ==
    /\ lastOp.op = "wheel"
    /\ lastOp.arg = 3
    /\ lastOp.outcome = "noise"
    /\ ~isScrolling
    /\ currentSection = 1
    /\ lastThrottleTime >= MountTime
    /\ now - lastThrottleTime >= momentumThrottle

(***************************************************************************)
(* Claims checked under RefsSpec                                           *)
(***************************************************************************)
\* C18: scrollToSection, handlePopStateNavigation and handleURLSectionChange
\* called with an index that has no registered element return without
\* effect: currentSection, isScrolling, lastScrollTime, the pending timers
\* and the throttle timestamp stay as they were and updateURL is not called.
C18_MissingElementIsNoOp ==
    [][(lastOp'.op \in {"scrollToSection", "popState", "urlChange"}
            /\ lastOp'.arg \notin sectionRefs)
          => (/\ UNCHANGED navVars
              /\ urlCalls' = <<>>
              /\ lastOp'.outcome = "noElement")]_vars

\* C18 witness: section 1 is within range but has no element; while the
\* transition to section 2 is under way, scrollToSection(1) has returned
\* without effect.
C18_Witness ==
    /\ lastOp.op = "scrollToSection"
    /\ lastOp.arg = 1
    /\ 1 \notin sectionRefs
    /\ 1 \in 0 .. (totalSections - 1)
    /\ lastOp.outcome = "noElement"
    /\ currentSection = 2
    /\ isScrolling
    /\ urlCalls = <<>>

(***************************************************************************)
(* Claims checked under HorizontalSpec                                     *)
(***************************************************************************)
\* C20: in the horizontal hook, whenever isScrolling is true it later
\* becomes false, also when the observer reports no item.
C20_HorizontalEventuallyUnlocked ==
    (axis = "horizontal" /\ isScrolling) ~> ~isScrolling

\* What the vertical hook's wheel handler decides, with the vertical hook's
\* throttle configuration, for an event of delta in the present state.
verticalWheelAccepts(delta) ==
    LET isMomentum == isMomentumScroll(delta, now, lastDelta, lastDirection,
                                       lastEventTime)
        nextSection == currentSection + stepDirection(delta)
    IN /\ isValidDelta(delta)
       /\ ~isScrolling
       /\ ~isThrottled(isMomentum, now, lastThrottleTime,
                       VerticalNormalThrottle, VerticalMomentumThrottle)
       /\ inBounds(nextSection)
       /\ hasElement(nextSection)

\* What the vertical hook's touch-end handler decides, with the vertical
\* hook's throttle configuration, for a touch that ends at y.
verticalTouchAccepts(y) ==
    LET deltaY == touchStartY - y
        nextSection == currentSection + stepDirection(deltaY)
    IN /\ isTouching
       /\ Abs(deltaY) >= MIN_TOUCH_DISTANCE
       /\ now - touchStartTime <= MAX_TOUCH_TIME
       /\ ~isThrottled(FALSE, now, lastThrottleTime,
                       VerticalNormalThrottle, VerticalMomentumThrottle)
       /\ inBounds(nextSection)
       /\ hasElement(nextSection)

\* C21: the two hooks are the same state machine.  Both are deterministic,
\* so they agree on every sequence of inputs exactly when they agree on the
\* next input from every state: the horizontal hook accepts a wheel event of
\* non-zero delta, or a touch end, exactly when the vertical hook's handler
\* accepts it from the same state, and moves to the same index with the
\* same flag.
C21_HorizontalSameAsVertical ==
    [][/\ (lastOp'.op = "wheel" /\ lastOp'.arg # 0)
            => /\ lastOp'.outcome = "accepted" <=> verticalWheelAccepts(lastOp'.arg)
               /\ verticalWheelAccepts(lastOp'.arg)
                    => /\ currentSection' = currentSection + Sign(lastOp'.arg)
                       /\ isScrolling'
       /\ lastOp'.op = "touchEnd"
            => /\ lastOp'.outcome = "accepted" <=> verticalTouchAccepts(lastOp'.arg)
               /\ verticalTouchAccepts(lastOp'.arg)
                    => /\ currentSection' =
                             currentSection + Sign(touchStartY - lastOp'.arg)
                       /\ isScrolling']_vars

(***************************************************************************)
(* Claims checked under TouchSpec                                          *)
(***************************************************************************)
\* C22: the touch end of an active touch is discarded exactly when the
\* distance is below 50 or the elapsed time above 800 (50 and 800 pass).
\* A touch that passes is throttled exactly when less than normalThrottle
\* has passed since the last navigation, whatever momentumThrottle is, and
\* otherwise steps by the sign of start - end when the target is within
\* range.  The classifier refs are not touched.
C22_TouchEndValidation ==
    [][(lastOp'.op = "touchEnd" /\ isTouching) =>
          LET distance == Abs(touchStartY - lastOp'.arg)
              elapsed == now - touchStartTime
              discarded == distance < 50 \/ elapsed > 800
              target == currentSection + Sign(touchStartY - lastOp'.arg)
          IN /\ lastOp'.outcome \in {"short", "slow"} <=> discarded
             /\ lastOp'.outcome = "throttled"
                   <=> (~discarded /\ now - lastThrottleTime < normalThrottle)
             /\ lastOp'.outcome = "accepted"
                   <=> (/\ ~discarded
                        /\ now - lastThrottleTime >= normalThrottle
                        /\ target \in 0 .. (totalSections - 1))
             /\ lastOp'.outcome = "accepted" => currentSection' = target
             /\ UNCHANGED classifierVars]_vars

\* C22 witness: a swipe of exactly 50 px that took exactly 800 ms has been
\* accepted.
C22_Witness ==
    /\ lastOp.op = "touchEnd"
    /\ lastOp.outcome = "accepted"
    /\ Abs(touchStartY - lastOp.arg) = 50
    /\ now - touchStartTime = 800
    /\ currentSection = 1

\* C23: a touch end handled while isScrolling is true starts no navigation:
\* it leaves currentSection, the lock, the timer and the throttle as they
\* were.
C23_TouchEndRejectedWhileScrolling ==
    [][(lastOp'.op = "touchEnd" /\ isScrolling)
          => (lastOp'.outcome # "accepted" /\ UNCHANGED navVars)]_vars

\* C24: a touch start handled while isScrolling is true records nothing:
\* touchStartY, touchStartTime and isTouching stay as they were, and so does
\* the navigation state.  A touch end handled while isTouching is false
\* (no touch was recorded) starts no navigation.
C24_TouchStartIgnoredWhileScrolling ==
    [][/\ (lastOp'.op = "touchStart" /\ isScrolling)
            => (/\ lastOp'.outcome = "locked"
                /\ UNCHANGED <<touchVars, navVars>>)
       /\ (lastOp'.op = "touchEnd" /\ ~isTouching)
            => (/\ lastOp'.outcome = "inactive"
                /\ UNCHANGED <<touchVars, navVars>>)]_vars

\* C24 witness: no touch has ever been recorded; a touch start has just been
\* ignored because a transition is under way.
C24_Witness ==
    /\ lastOp.op = "touchStart"
    /\ lastOp.outcome = "locked"
    /\ isScrolling
    /\ ~isTouching
    /\ touchStartTime = 0

\* C25: touch cancel sets isTouching to false and changes nothing else; a
\* touch end handled directly after it is ignored; every touch end, accepted
\* or discarded, leaves isTouching false.
C25_TouchCancelClearsActive ==
    [][/\ lastOp'.op = "touchCancel"
            => (/\ ~isTouching'
                /\ UNCHANGED <<navVars, classifierVars, touchStartY,
                               touchStartTime>>)
       /\ lastOp'.op = "touchEnd" => ~isTouching'
       /\ (lastOp.op = "touchCancel" /\ lastOp'.op = "touchEnd")
            => (lastOp'.outcome = "inactive" /\ UNCHANGED navVars)]_vars

\* C25 witness: a touch recorded 600 ms ago was cancelled, and the touch
\* end of a valid swipe that followed has been ignored.
C25_Witness ==
    /\ lastOp.op = "touchEnd"
    /\ lastOp.arg = 150
    /\ lastOp.outcome = "inactive"
    /\ now - touchStartTime = 600
    /\ lastThrottleTime = 0
    /\ ~isTouching

\* C26: the throttle timestamp changes only in an accepted wheel step, touch
\* step or scrollToSection call, which stamps it with the present time; a
\* wheel or touch event that is rejected (noise, locked, throttled, too
\* short, too slow, out of range, no active touch) leaves it as it was, and
\* so does every other handler.
C26_ThrottleStampedOnAcceptOnly ==
    [][/\ (lastOp'.op \in {"wheel", "touchEnd", "scrollToSection"}
              /\ lastOp'.outcome = "accepted")
            => lastThrottleTime' = now
       /\ ~(lastOp'.op \in {"wheel", "touchEnd", "scrollToSection"}
              /\ lastOp'.outcome = "accepted")
            => UNCHANGED lastThrottleTime]_vars

\* C26 witness: a touch end that was rejected by the throttle has left the
\* timestamp of the navigation before it in place.
C26_Witness ==
    /\ lastOp.op = "touchEnd"
    /\ lastOp.outcome = "throttled"
    /\ lastThrottleTime >= MountTime
    /\ lastThrottleTime < now
    /\ now - lastThrottleTime < normalThrottle

\* C27: a wheel event with |deltaY| below minDelta leaves lastDelta,
\* lastDirection and lastEventTime as they were.
C27_NoiseLeavesClassifier ==
    [][(lastOp'.op = "wheel" /\ Abs(lastOp'.arg) < minDelta)
          => UNCHANGED classifierVars]_vars

\* C38: the throttle keeps only the time of the last accepted navigation,
\* and the duration is chosen by the label of the incoming event.  A wheel
\* event is labelled intentional exactly when its direction differs from
\* the previous sample's (or that one had none), its magnitude is larger,
\* or at least minTimeGap has passed since it.  An intentional wheel event
\* of significant delta whose target is within range is accepted as soon as
\* normalThrottle has passed since the last accepted navigation and
\* isScrolling is false, also when momentumThrottle has not yet passed.
C38_IntentionalWaitsNormalDurationOnly ==
    [][lastOp'.op = "wheel" =>
          /\ ~lastOp'.momentum <=>
                \/ lastDirection = 0
                \/ Sign(lastOp'.arg) # lastDirection
                \/ Abs(lastOp'.arg) > lastDelta
                \/ now - lastEventTime >= minTimeGap
          /\ (/\ ~lastOp'.momentum
              /\ Abs(lastOp'.arg) >= minDelta
              /\ ~isScrolling
              /\ now - lastThrottleTime >= normalThrottle
              /\ currentSection + Sign(lastOp'.arg) \in 0 .. (totalSections - 1))
               => /\ lastOp'.outcome = "accepted"
                  /\ currentSection' = currentSection + Sign(lastOp'.arg)
                  /\ lastThrottleTime' = now]_vars

\* C38 witness: 600 ms after a navigation to section 1 stamped the throttle
\* (normalThrottle has passed, momentumThrottle has not), a wheel event
\* labelled intentional has been accepted and has moved on to section 2.
C38_Witness ==
    /\ lastOp.op = "wheel"
    /\ ~lastOp.momentum
    /\ lastOp.outcome = "accepted"
    /\ now = MountTime + 600
    /\ now - MountTime < momentumThrottle
    /\ currentSection = 2

\* C39: scrollToSection called with the index of the current section (its
\* element is registered) leaves currentSection as it is but sets
\* isScrolling, stamps lastScrollTime and the throttle with the present
\* time, leaves one safety timeout pending, due in 2000 ms, and calls
\* updateURL with that index; and as long as isScrolling is true no wheel or
\* touch gesture starts a navigation.
C39_JumpToCurrentSectionLocks ==
    [][/\ (/\ lastOp'.op = "scrollToSection"
           /\ lastOp'.arg = currentSection
           /\ lastOp'.arg \in sectionRefs)
            => /\ currentSection' = currentSection
               /\ isScrolling'
               /\ lastScrollTime' = now
               /\ lastThrottleTime' = now
               /\ timeouts' = {now + 2000}
               /\ urlCalls' = <<currentSection>>
       /\ (lastOp'.op \in {"wheel", "touchStart", "touchEnd"} /\ isScrolling)
            => (lastOp'.outcome # "accepted" /\ UNCHANGED navVars)]_vars

(***************************************************************************)
(* Claims checked under ScenarioSpec                                       *)
(***************************************************************************)
\* C11: of the wheel events 50 at 0, 40 at 20, 28 at 45 and 10 at 5000 (five
\* sections, start at section 0), the event at 0 is intentional and moves
\* currentSection to 1, the events at 20 and 45 start no navigation, and the
\* event at 5000 is intentional, not throttled, and moves currentSection to
\* 2: two navigations in all.
C11_ScenarioTwoNavigations ==
    /\ [][lastOp'.op = "wheel" =>
            /\ now = MountTime + 0 =>
                  /\ ~lastOp'.momentum
                  /\ lastOp'.outcome = "accepted"
                  /\ currentSection = 0 /\ currentSection' = 1
            /\ now \in {MountTime + 20, MountTime + 45} =>
                  /\ lastOp'.outcome \in {"locked", "throttled"}
                  /\ UNCHANGED navVars
            /\ now = MountTime + 5000 =>
                  /\ ~lastOp'.momentum
                  /\ lastOp'.outcome = "accepted"
                  /\ currentSection = 1 /\ currentSection' = 2]_vars
    /\ [](lastEventTime = MountTime + 5000 => currentSection = 2)

\* C11 witness: the fourth event has been dispatched and accepted as an
\* intentional event; currentSection is 2.
C11_Witness ==
    /\ lastOp.op = "wheel"
    /\ lastOp.arg = 10
    /\ ~lastOp.momentum
    /\ lastOp.outcome = "accepted"
    /\ now = MountTime + 5000
    /\ currentSection = 2

====
